---- MODULE Spec2Model ----
(***************************************************************************)
(* Model of tools/content_tools.py of the Office-PowerPoint-MCP-Server:    *)
(* the six tools registered by register_content_tools (add_slide,          *)
(* get_slide_info, populate_placeholder, add_bullet_points, manage_text,   *)
(* manage_image) acting on the shared registry of open presentations, and  *)
(* the standalone generate_content_from_outline routine.                   *)
(*                                                                         *)
(* A Python Optional value is a sequence: <<>> is None, <<v>> is v.        *)
(* Every tool call is one action (the server is synchronous and serves a   *)
(* single caller); the call's arguments, its result object and the         *)
(* delegated operations it invoked are kept in "last" until the caller     *)
(* has taken the result.                                                   *)
(***************************************************************************)
EXTENDS Integers, Sequences, FiniteSets, TLC

VARIABLES
    presentations,  \* the registry: presentation id -> document
    current,        \* what get_current_presentation_id() returns (Optional id)
    files,          \* names of the image files that exist on disk
    tempFiles,      \* temporary files that exist on disk (by number)
    calls,          \* number of tool calls made so far
    last,           \* the call whose result is in flight to the caller
    gen             \* the run of generate_content_from_outline

vars == <<presentations, current, files, tempFiles, calls, last, gen>>

----------------------------------------------------------------------------
(* Bounds of the model.                                                    *)

MaxCalls == 1        \* tool calls per behaviour
MaxIndex == 1        \* index arguments range over -1..MaxIndex
NumLayouts == 2      \* len(pres.slide_layouts) of every open document
MaxGenSlides == 12   \* slides of the template given to the generator
MaxSections == 3     \* sections of the outline given to the generator

----------------------------------------------------------------------------
(* Python values.                                                          *)

None == <<>>
Some(v) == <<v>>

\* Python truthiness of an Optional string and of an Optional list
TruthyStr(o) == o # None /\ o[1] # ""
Truthy(o) == o # None /\ o[1] # <<>>

Min2(a, b) == IF a <= b THEN a ELSE b

NoRange == <<>>

\* A result object: "message" and "data" are the two success shapes, "error"
\* is the {"error": ...} dictionary; "exception" stands for a call that did
\* not return because an exception left the tool function.
Result(status, code, range, index) ==
    [status |-> status, code |-> code, range |-> range, index |-> index]

Message(code, index) == Result("message", code, NoRange, index)
Data(code) == Result("data", code, NoRange, None)
Error(code) == Result("error", code, NoRange, None)
RangeError(code, n) == Result("error", code, <<0, n - 1>>, None)

----------------------------------------------------------------------------
(* The document model that the tools reach through python-pptx.            *)

NoFormat == [font_size |-> None, color |-> None, bg_color |-> None]

EmptyParas == << <<>> >>     \* a text frame always holds one paragraph

Placeholder(idx) ==
    [kind |-> "placeholder", idx |-> idx, paras |-> EmptyParas, fmt |-> NoFormat]

Picture == [kind |-> "picture", idx |-> -1, paras |-> <<>>, fmt |-> NoFormat]

HasTextFrame(shape) == shape.kind # "picture"

\* the slide python-pptx builds from layout number "layout": one placeholder
\* per placeholder of the layout (layout k carries placeholders 0..k)
NewSlide(layout) ==
    [shapes |-> [i \in 1..(layout + 1) |-> Placeholder(i - 1)],
     background |-> "none"]

NewDocument == [slides |-> <<>>]

\* shape.text_frame.text = text: one paragraph holding one run
TextParas(text) == << << [text |-> text] >> >>

PlaceholderIdxs(slide) ==
    {slide.shapes[i].idx : i \in {j \in 1..Len(slide.shapes) :
                                     slide.shapes[j].kind = "placeholder"}}

\* position in slide.shapes of the placeholder with the given idx
PlaceholderPos(slide, idx) ==
    CHOOSE i \in 1..Len(slide.shapes) :
        slide.shapes[i].kind = "placeholder" /\ slide.shapes[i].idx = idx

SetShape(slide, pos, shape) ==
    [slide EXCEPT !.shapes = [slide.shapes EXCEPT ![pos] = shape]]

\* pres.slides[slide_index] = slide  (slide_index is 0-based)
SetSlide(pres, slide_index, slide) ==
    [pres EXCEPT !.slides = [pres.slides EXCEPT ![slide_index + 1] = slide]]

----------------------------------------------------------------------------
(* The validation helpers handed to register_content_tools.                *)

is_positive(v) == v > 0

is_valid_rgb(c) ==
    /\ Len(c) = 3
    /\ \A i \in 1..3 : c[i] >= 0 /\ c[i] <= 255

\* validate_parameters: one error for the whole dictionary of validations;
\* a validation is [param, ok], ok being the verdict of its predicate list
validate_parameters(validations) ==
    LET failed == {v \in validations : ~v.ok}
    IN  [valid |-> failed = {}, error |-> {v.param : v \in failed}]

----------------------------------------------------------------------------
(* The dispatch pattern every tool follows.                                *)

\* pres_id = presentation_id if presentation_id is not None
\*           else get_current_presentation_id()
ResolvePresIdPreferCurrent(presentation_id, cur) ==
    IF cur # None THEN cur ELSE presentation_id

ResolvePresId(presentation_id, cur) ==
    IF presentation_id # None THEN presentation_id ELSE cur

\* pres_id is None or pres_id not in presentations
PresentationMissing(pres_id, reg) ==
    pres_id = None \/ pres_id[1] \notin DOMAIN reg

\* index < 0 or index >= len(collection)
IndexOutOfRangeOffByOne(index, n) == index < 0 \/ index > n

IndexOutOfRange(index, n) == index < 0 \/ index >= n

\* shape_index is None or shape_index < 0 or shape_index >= len(slide.shapes)
ShapeIndexInvalid(shape_index, n) ==
    shape_index = None \/ IndexOutOfRange(shape_index[1], n)

\* collection[index] raises IndexError when the index is beyond the list
\* (a negative Python index counts from the end)
SubscriptRaises(index, n) == index >= n \/ index < -n

\* len(collection) - 1 taken right after the append: the index of the new
\* element
NewIndexOffByOne(n) == n

NewIndex(n) == n - 1

\* The world a tool body acts on, and the progress of the body: the
\* delegated and library operations invoked so far, and whether one raised.
World(doc, fs, tmp) == [doc |-> doc, files |-> fs, temp |-> tmp]

Begin(w) == [w |-> w, ops |-> <<>>, exc |-> FALSE]

\* the environment's choice "fault": the fault-th operation invoked raises
Faulty(s, fault) == fault = Len(s.ops) + 1

\* invoke operation "name": it raises (leaving the world as it was) or
\* completes with world w; nothing is invoked once an exception is in flight
Invoke(s, name, raises, w) ==
    IF s.exc THEN s
    ELSE [w |-> IF raises THEN s.w ELSE w,
          ops |-> Append(s.ops, name),
          exc |-> raises]

\* a plain statement of the body that raises (a failed lookup)
Raise(s) == [s EXCEPT !.exc = TRUE]

\* try: ... except Exception as e: return {"error": f"Failed to ...: {e}"}
ExceptPropagates(s, code, result) ==
    IF s.exc THEN Result("exception", code, NoRange, None) ELSE result

Except(s, code, result) ==
    IF s.exc THEN Error(code) ELSE result

\* what a call leaves behind: the registry, the disk, the result object,
\* the operations it invoked and whether one of them raised
Outcome(reg, w, result, ops, raised) ==
    [reg |-> reg, files |-> w.files, temp |-> w.temp,
     result |-> result, ops |-> ops, raised |-> raised]

\* the registry after the body ran on presentation pres_id: pres is the
\* registered object itself, so what the body did to it before raising stays
StoredRollback(reg, pres_id, s) ==
    IF s.exc THEN reg ELSE [reg EXCEPT ![pres_id[1]] = s.w.doc]

Stored(reg, pres_id, s) == [reg EXCEPT ![pres_id[1]] = s.w.doc]

NoPresentation ==
    Error("No presentation is currently loaded or the specified ID is invalid")

----------------------------------------------------------------------------
(* The operations of the presentation utility library (ppt_utils).         *)

\* ppt_utils.add_slide(pres, layout_index): appends one slide
AddSlide(w, layout_index) ==
    [w EXCEPT !.doc.slides = Append(@, NewSlide(layout_index))]

\* ppt_utils.set_title(slide, title): the text of the title placeholder
SetTitle(w, slide_index, title) ==
    LET slide == w.doc.slides[slide_index + 1]
        pos == PlaceholderPos(slide, 0)
    IN  [w EXCEPT !.doc = SetSlide(@, slide_index,
            SetShape(slide, pos, [slide.shapes[pos] EXCEPT !.paras = TextParas(title)]))]

\* set_slide_gradient_background / create_professional_gradient_background
SetBackground(w, slide_index, style) ==
    [w EXCEPT !.doc.slides[slide_index + 1].background = style]

\* ppt_utils.populate_placeholder(slide, placeholder_idx, text) raises when
\* the slide has no such placeholder
PopulateRaises(slide, placeholder_idx) ==
    placeholder_idx \notin PlaceholderIdxs(slide)

Populate(w, slide_index, placeholder_idx, paras) ==
    LET slide == w.doc.slides[slide_index + 1]
        pos == PlaceholderPos(slide, placeholder_idx)
    IN  [w EXCEPT !.doc = SetSlide(@, slide_index,
            SetShape(slide, pos, [slide.shapes[pos] EXCEPT !.paras = paras]))]

\* ppt_utils.add_bullet_points(placeholder, bullet_points): a paragraph each
BulletParas(bullet_points) ==
    [i \in 1..Len(bullet_points) |-> << [text |-> bullet_points[i]] >>]

\* ppt_utils.add_textbox(slide, ..., text, font_size=..., color=..., ...)
AddTextbox(w, slide_index, text, fmt) ==
    [w EXCEPT !.doc.slides[slide_index + 1].shapes =
        Append(@, [kind |-> "textbox", idx |-> -1,
                   paras |-> TextParas(text), fmt |-> fmt])]

\* the formatting a call hands over: font_size as given, and
\* tuple(color) if color else None
Formatting(font_size, color, bg_color) ==
    [font_size |-> font_size,
     color |-> IF Truthy(color) THEN color ELSE None,
     bg_color |-> IF Truthy(bg_color) THEN bg_color ELSE None]

\* ppt_utils.format_text_advanced(shape, ...): the given attributes are set,
\* the others stay
Merge(old, new) ==
    [k \in DOMAIN old |-> IF new[k] # None THEN new[k] ELSE old[k]]

FormatText(w, slide_index, shape_index, fmt) ==
    [w EXCEPT !.doc.slides[slide_index + 1].shapes[shape_index + 1].fmt =
        Merge(@, fmt)]

\* ppt_utils.validate_and_fix_slide(slide, auto_fix=True, min_font_size=...,
\* max_font_size=...): text that overflows is brought down to a fitting size
FixSlide(w, slide_index, min_font_size) ==
    [w EXCEPT !.doc.slides[slide_index + 1].shapes =
        [i \in DOMAIN @ |->
            IF HasTextFrame(@[i])
            THEN [@[i] EXCEPT !.fmt.font_size = Some(min_font_size)]
            ELSE @[i]]]

\* ppt_utils.add_image(slide, path, left, top, width, height)
AddImage(w, slide_index) ==
    [w EXCEPT !.doc.slides[slide_index + 1].shapes =
        Append(@, Picture)]

\* the path of an enhanced image when no output_path is given
DerivedPath(image_source) ==
    IF image_source = "img.png" THEN "img_enhanced.png" ELSE "enhanced.png"

EnhancedPath(image_source, output_path) ==
    IF output_path # None THEN output_path[1] ELSE DerivedPath(image_source)

\* apply_professional_image_enhancement / enhance_image_with_pillow: writes
\* the enhanced copy
Enhance(w, path) == [w EXCEPT !.files = @ \cup {path}]

----------------------------------------------------------------------------
(* The tools.  Each takes the registry, the current id, the disk, the      *)
(* call's arguments a and the environment's choices, and gives the call's  *)
(* Outcome.                                                                *)

\* which background operation add_slide invokes ("none" when neither branch
\* of the if/elif is taken)
BackgroundPathOneColor(background_type, background_colors) ==
    IF background_type = Some("gradient") /\ Truthy(background_colors)
       /\ Len(background_colors[1]) >= 1
    THEN "set_slide_gradient_background"
    ELSE IF background_type = Some("professional_gradient")
    THEN "create_professional_gradient_background"
    ELSE "none"

BackgroundPath(background_type, background_colors) ==
    IF background_type = Some("gradient") /\ Truthy(background_colors)
       /\ Len(background_colors[1]) >= 2
    THEN "set_slide_gradient_background"
    ELSE IF background_type = Some("professional_gradient")
    THEN "create_professional_gradient_background"
    ELSE "none"

BackgroundStyle(path) ==
    IF path = "set_slide_gradient_background" THEN "gradient" ELSE "professional"

add_slide(reg, cur, w0, a, fault) ==
    LET pres_id == ResolvePresId(a.presentation_id, cur) IN
    IF PresentationMissing(pres_id, reg)
    THEN Outcome(reg, w0, NoPresentation, <<>>, FALSE)
    ELSE
    LET pres == reg[pres_id[1]] IN
    IF IndexOutOfRange(a.layout_index, NumLayouts)
    THEN Outcome(reg, w0, RangeError("Invalid layout index", NumLayouts), <<>>, FALSE)
    ELSE
    LET w  == [w0 EXCEPT !.doc = pres]
        s1 == Invoke(Begin(w), "add_slide",
                     Faulty(Begin(w), fault) \/ SubscriptRaises(a.layout_index, NumLayouts),
                     AddSlide(w, a.layout_index))
        slide_index == NewIndex(Len(s1.w.doc.slides))
        s2 == IF TruthyStr(a.title)
              THEN Invoke(s1, "set_title",
                          Faulty(s1, fault) \/ SubscriptRaises(slide_index, Len(s1.w.doc.slides)),
                          SetTitle(s1.w, slide_index, a.title[1]))
              ELSE s1
        path == BackgroundPath(a.background_type, a.background_colors)
        s3 == IF path # "none"
              THEN Invoke(s2, path,
                          Faulty(s2, fault) \/ SubscriptRaises(slide_index, Len(s2.w.doc.slides)),
                          SetBackground(s2.w, slide_index, BackgroundStyle(path)))
              ELSE s2
    IN  Outcome(Stored(reg, pres_id, s3), s3.w,
                Except(s3, "Failed to add slide",
                       Message("Added slide", Some(slide_index))),
                s3.ops, s3.exc)

get_slide_info(reg, cur, w0, a, fault) ==
    LET pres_id == ResolvePresId(a.presentation_id, cur) IN
    IF PresentationMissing(pres_id, reg)
    THEN Outcome(reg, w0, NoPresentation, <<>>, FALSE)
    ELSE
    LET pres == reg[pres_id[1]] IN
    IF IndexOutOfRange(a.slide_index, Len(pres.slides))
    THEN Outcome(reg, w0, RangeError("Invalid slide index", Len(pres.slides)), <<>>, FALSE)
    ELSE IF SubscriptRaises(a.slide_index, Len(pres.slides))
    THEN Outcome(reg, w0, Result("exception", "IndexError", NoRange, None), <<>>, FALSE)
    ELSE
    LET w  == [w0 EXCEPT !.doc = pres]
        s1 == Invoke(Begin(w), "get_slide_info", Faulty(Begin(w), fault), w)
    IN  Outcome(reg, w0,
                Except(s1, "Failed to get slide info", Data("slide info")),
                s1.ops, s1.exc)

populate_placeholder(reg, cur, w0, a, fault) ==
    LET pres_id == ResolvePresId(a.presentation_id, cur) IN
    IF PresentationMissing(pres_id, reg)
    THEN Outcome(reg, w0, NoPresentation, <<>>, FALSE)
    ELSE
    LET pres == reg[pres_id[1]] IN
    IF IndexOutOfRange(a.slide_index, Len(pres.slides))
    THEN Outcome(reg, w0, RangeError("Invalid slide index", Len(pres.slides)), <<>>, FALSE)
    ELSE IF SubscriptRaises(a.slide_index, Len(pres.slides))
    THEN Outcome(reg, w0, Result("exception", "IndexError", NoRange, None), <<>>, FALSE)
    ELSE
    LET w  == [w0 EXCEPT !.doc = pres]
        slide == pres.slides[a.slide_index + 1]
        s1 == Invoke(Begin(w), "populate_placeholder",
                     Faulty(Begin(w), fault) \/ PopulateRaises(slide, a.placeholder_idx),
                     Populate(w, a.slide_index, a.placeholder_idx, TextParas(a.text)))
    IN  Outcome(Stored(reg, pres_id, s1), s1.w,
                Except(s1, "Failed to populate placeholder",
                       Message("Populated placeholder", None)),
                s1.ops, s1.exc)

add_bullet_points(reg, cur, w0, a, fault) ==
    LET pres_id == ResolvePresId(a.presentation_id, cur) IN
    IF PresentationMissing(pres_id, reg)
    THEN Outcome(reg, w0, NoPresentation, <<>>, FALSE)
    ELSE
    LET pres == reg[pres_id[1]] IN
    IF IndexOutOfRange(a.slide_index, Len(pres.slides))
    THEN Outcome(reg, w0, RangeError("Invalid slide index", Len(pres.slides)), <<>>, FALSE)
    ELSE IF SubscriptRaises(a.slide_index, Len(pres.slides))
    THEN Outcome(reg, w0, Result("exception", "IndexError", NoRange, None), <<>>, FALSE)
    ELSE
    LET w  == [w0 EXCEPT !.doc = pres]
        slide == pres.slides[a.slide_index + 1]
        \* placeholder = slide.placeholders[placeholder_idx]
        s1 == IF a.placeholder_idx \in PlaceholderIdxs(slide)
              THEN Invoke(Begin(w), "add_bullet_points", Faulty(Begin(w), fault),
                          Populate(w, a.slide_index, a.placeholder_idx,
                                   BulletParas(a.bullet_points)))
              ELSE Raise(Begin(w))
    IN  Outcome(Stored(reg, pres_id, s1), s1.w,
                Except(s1, "Failed to add bullet points",
                       Message("Added bullet points", None)),
                s1.ops, s1.exc)

----------------------------------------------------------------------------
(* manage_text.                                                            *)

MinFontSize == 8     \* min_font_size: int = 8

\* the validations dictionary manage_text builds from its typed arguments
ValidationsWithoutBgColor(font_size, color, bg_color) ==
    {[param |-> "font_size", ok |-> is_positive(v)] : v \in {font_size[i] : i \in DOMAIN font_size}}
    \cup {[param |-> "color", ok |-> is_valid_rgb(v)] : v \in {color[i] : i \in DOMAIN color}}

Validations(font_size, color, bg_color) ==
    {[param |-> "font_size", ok |-> is_positive(v)] : v \in {font_size[i] : i \in DOMAIN font_size}}
    \cup {[param |-> "color", ok |-> is_valid_rgb(v)] : v \in {color[i] : i \in DOMAIN color}}
    \cup {[param |-> "bg_color", ok |-> is_valid_rgb(v)] : v \in {bg_color[i] : i \in DOMAIN bg_color}}

\* the attributes format_runs sets on the run it adds for run_data: the text
\* and every key present, the color only when it is a valid RGB list
RunKeys == {"text", "bold", "italic", "underline", "font_size", "font_name",
            "color", "hyperlink"}

AppliedRun(run_data) ==
    [k \in {x \in DOMAIN run_data \cap RunKeys :
                x = "color" => is_valid_rgb(run_data.color)} |-> run_data[k]]

\* "if not text_frame.paragraphs": the branch that reuses paragraphs[0]
ReuseFirstParagraph(paras) == Len(paras) = 0

ShapeParas(w, slide_index, shape_index) ==
    w.doc.slides[slide_index + 1].shapes[shape_index + 1].paras

SetParas(w, slide_index, shape_index, paras) ==
    [w EXCEPT !.doc.slides[slide_index + 1].shapes[shape_index + 1].paras = paras]

\* the loop "for run_data in text_runs" of format_runs
RECURSIVE FormatRuns(_, _, _, _, _)
FormatRuns(s, slide_index, shape_index, text_runs, fault) ==
    IF text_runs = <<>> \/ s.exc THEN s
    ELSE
    LET run_data == Head(text_runs) IN
    IF "text" \notin DOMAIN run_data
    THEN FormatRuns(s, slide_index, shape_index, Tail(text_runs), fault)
    ELSE
    LET paras == ShapeParas(s.w, slide_index, shape_index)
        reuse == ReuseFirstParagraph(paras)
        \* paragraph = text_frame.paragraphs[0]  or  text_frame.add_paragraph()
        s1 == IF reuse
              THEN IF SubscriptRaises(0, Len(paras)) THEN Raise(s) ELSE s
              ELSE Invoke(s, "add_paragraph", Faulty(s, fault),
                          SetParas(s.w, slide_index, shape_index, Append(paras, <<>>)))
        target == IF reuse THEN 1 ELSE Len(paras) + 1
        paras1 == ShapeParas(s1.w, slide_index, shape_index)
        \* run = paragraph.add_run(); run.text = ...; run.font... = ...
        s2 == Invoke(s1, "add_run", Faulty(s1, fault),
                     SetParas(s1.w, slide_index, shape_index,
                        [paras1 EXCEPT ![target] = Append(@, AppliedRun(run_data))]))
    IN  FormatRuns(s2, slide_index, shape_index, Tail(text_runs), fault)

text_add(w, a, fault) ==
    LET s1 == Invoke(Begin(w), "add_textbox", Faulty(Begin(w), fault),
                     AddTextbox(w, a.slide_index, a.text,
                                Formatting(a.font_size, a.color, a.bg_color)))
        n  == Len(s1.w.doc.slides[a.slide_index + 1].shapes)
    IN  [s |-> s1, result |-> Message("Added text box", Some(NewIndex(n)))]

text_format(w, a, fault) ==
    LET n == Len(w.doc.slides[a.slide_index + 1].shapes) IN
    IF ShapeIndexInvalid(a.shape_index, n)
    THEN [s |-> Begin(w), result |-> RangeError("Invalid shape index for formatting", n)]
    ELSE
    LET s0 == IF SubscriptRaises(a.shape_index[1], n) THEN Raise(Begin(w)) ELSE Begin(w)
        s1 == Invoke(s0, "format_text_advanced", Faulty(s0, fault),
                     FormatText(w, a.slide_index, a.shape_index[1],
                                Formatting(a.font_size, a.color, a.bg_color)))
    IN  [s |-> s1, result |-> Message("Formatted text shape", None)]

text_validate(w, a, fault, needs_optimization) ==
    LET n == Len(w.doc.slides[a.slide_index + 1].shapes) IN
    IF ShapeIndexInvalid(a.shape_index, n)
    THEN [s |-> Begin(w), result |-> RangeError("Invalid shape index for validation", n)]
    ELSE
    LET s0 == IF SubscriptRaises(a.shape_index[1], n) THEN Raise(Begin(w)) ELSE Begin(w)
        s1 == Invoke(s0, "validate_text_fit", Faulty(s0, fault), w)
        s2 == IF ~a.validation_only /\ needs_optimization
              THEN Invoke(s1, "validate_and_fix_slide", Faulty(s1, fault),
                          FixSlide(s1.w, a.slide_index, MinFontSize))
              ELSE s1
    IN  [s |-> s2, result |-> Data("validation result")]

text_format_runs(w, a, fault) ==
    LET n == Len(w.doc.slides[a.slide_index + 1].shapes) IN
    IF ShapeIndexInvalid(a.shape_index, n)
    THEN [s |-> Begin(w), result |-> RangeError("Invalid shape index for format_runs", n)]
    ELSE IF ~Truthy(a.text_runs)
    THEN [s |-> Begin(w), result |-> Error("text_runs parameter is required")]
    ELSE
    LET s0 == IF SubscriptRaises(a.shape_index[1], n) THEN Raise(Begin(w)) ELSE Begin(w) IN
    IF ~s0.exc /\ ~HasTextFrame(w.doc.slides[a.slide_index + 1].shapes[a.shape_index[1] + 1])
    THEN [s |-> s0, result |-> Error("Shape does not contain text")]
    ELSE
    LET s1 == Invoke(s0, "text_frame.clear", Faulty(s0, fault),
                     SetParas(w, a.slide_index, a.shape_index[1], EmptyParas))
        s2 == FormatRuns(s1, a.slide_index, a.shape_index[1], a.text_runs[1], fault)
    IN  [s |-> s2, result |-> Message("Applied formatting to text runs", a.shape_index)]

manage_text(reg, cur, w0, a, fault, needs_optimization) ==
    LET pres_id == ResolvePresId(a.presentation_id, cur) IN
    IF PresentationMissing(pres_id, reg)
    THEN Outcome(reg, w0, NoPresentation, <<>>, FALSE)
    ELSE
    LET pres == reg[pres_id[1]] IN
    IF IndexOutOfRange(a.slide_index, Len(pres.slides))
    THEN Outcome(reg, w0, RangeError("Invalid slide index", Len(pres.slides)), <<>>, FALSE)
    ELSE IF SubscriptRaises(a.slide_index, Len(pres.slides))
    THEN Outcome(reg, w0, Result("exception", "IndexError", NoRange, None), <<>>, FALSE)
    ELSE
    LET check == validate_parameters(Validations(a.font_size, a.color, a.bg_color)) IN
    IF ~check.valid
    THEN Outcome(reg, w0, Error("Parameter validation failed"), <<>>, FALSE)
    ELSE
    LET w == [w0 EXCEPT !.doc = pres]
        body == IF a.operation = "add" THEN text_add(w, a, fault)
                ELSE IF a.operation = "format" THEN text_format(w, a, fault)
                ELSE IF a.operation = "validate"
                THEN text_validate(w, a, fault, needs_optimization)
                ELSE IF a.operation = "format_runs" THEN text_format_runs(w, a, fault)
                ELSE [s |-> Begin(w), result |-> Error("Invalid operation")]
    IN  Outcome(Stored(reg, pres_id, body.s), body.s.w,
                Except(body.s, "Failed to manage text", body.result),
                body.s.ops, body.s.exc)

----------------------------------------------------------------------------
(* manage_image.                                                           *)

\* base64.b64decode(image_source) raises on a payload that is not base64
B64DecodeRaises(image_source) == image_source \notin {"aW1n"}

\* tempfile.NamedTemporaryFile(delete=False, suffix='.png'): a fresh file
NewTemp(tmp) == CHOOSE n \in 1..(Cardinality(tmp) + 1) : n \notin tmp

\* os.unlink(temp_path), the statement after add_image in the inner try
CleanUpAlways(s, temp_path, fault) ==
    [s EXCEPT !.w.temp = @ \ {temp_path}]

CleanUp(s, temp_path, fault) ==
    Invoke(s, "unlink", Faulty(s, fault), [s.w EXCEPT !.temp = @ \ {temp_path}])

\* the inner try of the base64 branch.  NamedTemporaryFile(delete=False)
\* creates the file; a write that raises inside the with block leaves it
\* there, closed
image_add_base64(w, a, fault) ==
    LET s1 == Invoke(Begin(w), "b64decode", B64DecodeRaises(a.image_source), w)
        temp_path == NewTemp(w.temp)
        s2 == Invoke(s1, "NamedTemporaryFile", Faulty(s1, fault),
                     [s1.w EXCEPT !.temp = @ \cup {temp_path}])
        s3 == Invoke(s2, "write", Faulty(s2, fault), s2.w)
        s4 == Invoke(s3, "add_image", Faulty(s3, fault), AddImage(s3.w, a.slide_index))
        s5 == CleanUp(s4, temp_path, fault)
        n  == Len(s5.w.doc.slides[a.slide_index + 1].shapes)
    IN  [s |-> Begin(s5.w), ops |-> s5.ops, raised |-> s5.exc,
         result |-> Except(s5, "Failed to process base64 image",
                           Message("Added image from base64", Some(NewIndex(n))))]

image_add_file(w, a, fault) ==
    IF a.image_source \notin w.files
    THEN [s |-> Begin(w), ops |-> <<>>, raised |-> FALSE, result |-> Error("Image file not found")]
    ELSE
    LET s1 == Invoke(Begin(w), "add_image", fault = 1, AddImage(w, a.slide_index))
        n  == Len(s1.w.doc.slides[a.slide_index + 1].shapes)
    IN  [s |-> s1, ops |-> s1.ops, raised |-> s1.exc,
         result |-> Message("Added image", Some(NewIndex(n)))]

image_enhance(w, a, fault) ==
    IF a.source_type = "base64"
    THEN [s |-> Begin(w), ops |-> <<>>, raised |-> FALSE,
          result |-> Error("Enhancement operation requires file path, not base64 data")]
    ELSE IF a.image_source \notin w.files
    THEN [s |-> Begin(w), ops |-> <<>>, raised |-> FALSE, result |-> Error("Image file not found")]
    ELSE
    LET name == IF a.enhancement_style = Some("presentation")
                THEN "apply_professional_image_enhancement"
                ELSE "enhance_image_with_pillow"
        s1 == Invoke(Begin(w), name, fault = 1,
                     Enhance(w, EnhancedPath(a.image_source, a.output_path)))
    IN  [s |-> s1, ops |-> s1.ops, raised |-> s1.exc,
         result |-> Message("Enhanced image", None)]

manage_image(reg, cur, w0, a, fault) ==
    LET pres_id == ResolvePresId(a.presentation_id, cur) IN
    IF PresentationMissing(pres_id, reg)
    THEN Outcome(reg, w0, NoPresentation, <<>>, FALSE)
    ELSE
    LET pres == reg[pres_id[1]] IN
    IF IndexOutOfRange(a.slide_index, Len(pres.slides))
    THEN Outcome(reg, w0, RangeError("Invalid slide index", Len(pres.slides)), <<>>, FALSE)
    ELSE IF SubscriptRaises(a.slide_index, Len(pres.slides))
    THEN Outcome(reg, w0, Result("exception", "IndexError", NoRange, None), <<>>, FALSE)
    ELSE
    LET w == [w0 EXCEPT !.doc = pres]
        body == IF a.operation = "add"
                THEN IF a.source_type = "base64"
                     THEN image_add_base64(w, a, fault)
                     ELSE image_add_file(w, a, fault)
                ELSE IF a.operation = "enhance" THEN image_enhance(w, a, fault)
                ELSE [s |-> Begin(w), ops |-> <<>>, raised |-> FALSE, result |-> Error("Invalid operation")]
    IN  Outcome(Stored(reg, pres_id, body.s), body.s.w,
                Except(body.s, "Failed to manage image", body.result),
                body.ops, body.raised)

----------------------------------------------------------------------------
(* The arguments the caller draws from.                                    *)

Red == <<255, 0, 0>>
Blue == <<0, 0, 255>>
NotRgb == <<300, 0, 0>>
ShortRgb == <<1, 2>>

PresentationIds == {"p1", "p2"}
PidArgs == {None, Some("p2"), Some("px")}
IndexArgs == -1..MaxIndex
OptIndexArgs == {None} \cup {Some(i) : i \in IndexArgs}

BackgroundArgs ==
    {[type |-> None, colors |-> None],
     [type |-> Some("solid"), colors |-> Some(<<Red>>)],
     [type |-> Some("professional_gradient"), colors |-> None]}
    \cup {[type |-> Some("gradient"), colors |-> c] :
            c \in {None, Some(<<>>), Some(<<Red>>), Some(<<Red, Blue>>)}}

AddSlideArgs ==
    {[presentation_id |-> p, layout_index |-> l, title |-> t,
      background_type |-> b.type, background_colors |-> b.colors] :
        p \in PidArgs, l \in -1..NumLayouts, t \in {None, Some("T")},
        b \in BackgroundArgs}

SlideArgs ==
    {[presentation_id |-> p, slide_index |-> i] : p \in PidArgs, i \in IndexArgs}

PlaceholderArgs ==
    {[presentation_id |-> p, slide_index |-> i, placeholder_idx |-> k,
      text |-> "t", bullet_points |-> <<"a", "b">>] :
        p \in PidArgs, i \in IndexArgs, k \in IndexArgs}

TypedArgs ==
    {[font_size |-> None, color |-> None, bg_color |-> None],
     [font_size |-> Some(12), color |-> Some(Red), bg_color |-> Some(Blue)],
     [font_size |-> Some(0), color |-> None, bg_color |-> None],
     [font_size |-> None, color |-> Some(NotRgb), bg_color |-> None],
     [font_size |-> None, color |-> None, bg_color |-> Some(ShortRgb)],
     [font_size |-> Some(0), color |-> Some(<<>>), bg_color |-> None]}

RunLists ==
    {Some(<<>>),
     Some(<< [bold |-> TRUE] >>),
     Some(<< [text |-> "a"] >>),
     Some(<< [text |-> "a", bold |-> TRUE], [italic |-> TRUE],
             [text |-> "b", color |-> NotRgb] >>)}

\* the arguments an operation of manage_text does not read keep their defaults
TextOpArgs ==
    {[operation |-> o, shape_index |-> None, text_runs |-> None,
      validation_only |-> FALSE] : o \in {"add", "delete"}}
    \cup {[operation |-> "format", shape_index |-> x, text_runs |-> None,
           validation_only |-> FALSE] : x \in OptIndexArgs}
    \cup {[operation |-> "validate", shape_index |-> x, text_runs |-> None,
           validation_only |-> v] : x \in OptIndexArgs, v \in BOOLEAN}
    \cup {[operation |-> "format_runs", shape_index |-> x, text_runs |-> r,
           validation_only |-> FALSE] : x \in OptIndexArgs, r \in RunLists}

ManageTextArgs ==
    {[presentation_id |-> p, slide_index |-> i, operation |-> o.operation,
      text |-> "t", shape_index |-> o.shape_index, text_runs |-> o.text_runs,
      font_size |-> t.font_size, color |-> t.color, bg_color |-> t.bg_color,
      validation_only |-> o.validation_only] :
        p \in PidArgs, i \in IndexArgs, o \in TextOpArgs, t \in TypedArgs}

\* what the environment decides during a manage_text call: which operation
\* raises (0: none) and what validate_text_fit reports
TextEnv(a) ==
    IF a.operation = "validate"
    THEN {[fault |-> 0, needs_optimization |-> FALSE],
          [fault |-> 0, needs_optimization |-> TRUE],
          [fault |-> 1, needs_optimization |-> FALSE],
          [fault |-> 2, needs_optimization |-> TRUE]}
    ELSE IF a.operation = "format_runs"
    THEN {[fault |-> f, needs_optimization |-> FALSE] : f \in 0..3}
    ELSE {[fault |-> f, needs_optimization |-> FALSE] : f \in 0..1}

ImageOpArgs ==
    {[operation |-> "add", source_type |-> "file", image_source |-> f,
      enhancement_style |-> None, output_path |-> None] :
        f \in {"img.png", "missing.png"}}
    \cup {[operation |-> "add", source_type |-> "base64", image_source |-> b,
           enhancement_style |-> None, output_path |-> None] :
            b \in {"aW1n", "abc"}}
    \cup {[operation |-> "enhance", source_type |-> "file", image_source |-> f,
           enhancement_style |-> e, output_path |-> o] :
            f \in {"img.png", "missing.png"},
            e \in {None, Some("presentation")}, o \in {None, Some("out.png")}}
    \cup {[operation |-> "enhance", source_type |-> "base64", image_source |-> "aW1n",
           enhancement_style |-> None, output_path |-> None],
          [operation |-> "crop", source_type |-> "file", image_source |-> "img.png",
           enhancement_style |-> None, output_path |-> None]}

ManageImageArgs ==
    {[presentation_id |-> p, slide_index |-> i, operation |-> o.operation,
      source_type |-> o.source_type, image_source |-> o.image_source,
      enhancement_style |-> o.enhancement_style, output_path |-> o.output_path] :
        p \in PidArgs, i \in IndexArgs, o \in ImageOpArgs}

----------------------------------------------------------------------------
(* State machine of the tool server.                                       *)

Idle == [tool |-> "none"]

NoGen == [phase |-> "none"]

\* the documents a load tool may have put in the registry: one slide made
\* from layout 0, bare, or with a title text and a picture on it
LoadedDocuments ==
    {[slides |-> << NewSlide(0) >>],
     [slides |-> << [shapes |-> << [Placeholder(0) EXCEPT !.paras = TextParas("old")],
                                   Picture >>,
                     background |-> "none"] >>]}

Init ==
    /\ \E doc \in LoadedDocuments :
          presentations = [id \in PresentationIds |->
                              IF id = "p1" THEN doc ELSE NewDocument]
    /\ current \in {None, Some("p1")}
    /\ files = {"img.png"}
    /\ tempFiles = {}
    /\ calls = 0
    /\ last = Idle
    /\ gen = NoGen

W0 == World(NewDocument, files, tempFiles)

\* a whole tool call: the handler runs to its return, the result is in flight
Call(tool, a, out) ==
    /\ presentations' = out.reg
    /\ files' = out.files
    /\ tempFiles' = out.temp
    /\ calls' = calls + 1
    /\ last' = [tool |-> tool, args |-> a, result |-> out.result, ops |-> out.ops,
                raised |-> out.raised, pre |-> presentations, preTemp |-> tempFiles, preFiles |-> files]
    /\ UNCHANGED <<current, gen>>

CanCall == last = Idle /\ calls < MaxCalls

AddSlideCall ==
    /\ CanCall
    /\ \E a \in AddSlideArgs, fault \in 0..3 :
          Call("add_slide", a, add_slide(presentations, current, W0, a, fault))

GetSlideInfoCall ==
    /\ CanCall
    /\ \E a \in SlideArgs, fault \in 0..1 :
          Call("get_slide_info", a, get_slide_info(presentations, current, W0, a, fault))

PopulatePlaceholderCall ==
    /\ CanCall
    /\ \E a \in PlaceholderArgs, fault \in 0..1 :
          Call("populate_placeholder", a,
               populate_placeholder(presentations, current, W0, a, fault))

AddBulletPointsCall ==
    /\ CanCall
    /\ \E a \in PlaceholderArgs, fault \in 0..1 :
          Call("add_bullet_points", a,
               add_bullet_points(presentations, current, W0, a, fault))

ManageTextCall ==
    /\ CanCall
    /\ \E a \in ManageTextArgs :
          \E e \in TextEnv(a) :
              Call("manage_text", a,
                   manage_text(presentations, current, W0, a, e.fault,
                               e.needs_optimization))

\* the operation of the body the environment fails, if any: the base64
\* branch invokes b64decode (which fails by its input), NamedTemporaryFile,
\* write, add_image and unlink; the other branches one operation
ImageFaults(a) ==
    IF a.operation = "add" /\ a.source_type = "base64" THEN {0} \cup 2..5
    ELSE 0..1

ManageImageCall ==
    /\ CanCall
    /\ \E a \in ManageImageArgs :
          \E fault \in ImageFaults(a) :
             Call("manage_image", a, manage_image(presentations, current, W0, a, fault))

\* the caller takes the result object
Deliver ==
    /\ last # Idle
    /\ last' = Idle
    /\ UNCHANGED <<presentations, current, files, tempFiles, calls, gen>>

Next ==
    \/ AddSlideCall
    \/ GetSlideInfoCall
    \/ PopulatePlaceholderCall
    \/ AddBulletPointsCall
    \/ ManageTextCall
    \/ ManageImageCall
    \/ Deliver

Spec == Init /\ [][Next]_vars

----------------------------------------------------------------------------
(* generate_content_from_outline.                                          *)

GenFontSize == 18    \* paragraph.font.size = Pt(18)
SlidesPerSection == 5

\* section_index = min(slide_index // 5, len(outline["sections"]) - 1)
SectionIndexModulo(slide_index, n) == Min2(slide_index % SlidesPerSection, n - 1)

SectionIndex(slide_index, n) == Min2(slide_index \div SlidesPerSection, n - 1)

\* the text the completion endpoint returns for a prompt built from a section
GeneratedText(section) == section

\* the loop "for shape in slide.shapes" on slide number slide_index
RECURSIVE GenerateShapes(_, _, _, _, _)
GenerateShapes(s, slide_index, pos, section, fault) ==
    IF s.exc \/ pos > Len(s.w.doc.slides[slide_index + 1].shapes) THEN s
    ELSE
    LET shape == s.w.doc.slides[slide_index + 1].shapes[pos] IN
    IF ~HasTextFrame(shape)
    THEN GenerateShapes(s, slide_index, pos + 1, section, fault)
    ELSE
    LET filled == [shape EXCEPT !.paras = TextParas(GeneratedText(section)),
                                !.fmt.font_size = Some(GenFontSize)]
        s1 == Invoke(s, "chat.completions.create", Faulty(s, fault),
                     [s.w EXCEPT
                        !.doc.slides[slide_index + 1].shapes[pos] = filled,
                        !.prompts = Append(@, [slide |-> slide_index,
                                               shape |-> pos - 1,
                                               section |-> section])])
    IN  GenerateShapes(s1, slide_index, pos + 1, section, fault)

\* the loop "for slide_index, slide in enumerate(prs.slides)"
RECURSIVE GenerateSlides(_, _, _, _)
GenerateSlides(s, slide_index, sections, fault) ==
    IF s.exc \/ slide_index >= Len(s.w.doc.slides) THEN s
    ELSE
    LET section_index == SectionIndex(slide_index, Len(sections)) IN
    \* current_section = outline["sections"][section_index]
    IF SubscriptRaises(section_index, Len(sections))
    THEN Raise(s)
    ELSE
    LET current_section ==
            IF section_index >= 0 THEN sections[section_index + 1]
            ELSE sections[Len(sections) + section_index + 1]
        s1 == GenerateShapes(s, slide_index, 1, current_section, fault)
    IN  GenerateSlides(s1, slide_index + 1, sections, fault)

\* prs.save(output_path), the statement after the loops
SaveRegardless(s, fault) ==
    [s EXCEPT !.w.saved = Some(s.w.doc), !.ops = Append(@, "save")]

Save(s, fault) ==
    Invoke(s, "save", Faulty(s, fault), [s.w EXCEPT !.saved = Some(s.w.doc)])

\* except Exception as e: "error": str(e) -- the message tells the operation
\* that raised, or the failed lookup outline["sections"][section_index]
Caught(s, fault) ==
    IF ~s.exc THEN None
    ELSE IF fault = Len(s.ops) THEN Some(s.ops[fault])
    ELSE Some("sections")

\* template: the document at template_path; outline: the value of the
\* "sections" key of the outline file (None when the key is missing)
generate_content_from_outline(template, outline, fault) ==
    LET w0 == [doc |-> NewDocument, prompts |-> <<>>, saved |-> None]
        s1 == Invoke(Begin(w0), "OpenAI", Faulty(Begin(w0), fault), w0)
        s2 == Invoke(s1, "json.load", Faulty(s1, fault), s1.w)
        s3 == Invoke(s2, "Presentation", Faulty(s2, fault),
                     [s2.w EXCEPT !.doc = template])
        s4 == IF s3.exc THEN s3
              ELSE IF Len(template.slides) > 0 /\ outline = None THEN Raise(s3)
              ELSE IF Len(template.slides) = 0 THEN s3
              ELSE GenerateSlides(s3, 0, outline[1], fault)
        s5 == Save(s4, fault)
    IN  [success |-> ~s5.exc, error |-> Caught(s5, fault),
         prompts |-> s5.w.prompts, saved |-> s5.w.saved, ops |-> s5.ops]

MaxGenFault == 6     \* the environment may fail any of the first operations

SectionNames == [k \in 1..MaxSections |-> <<"intro", "body", "close", "extra", "more">>[k]]

Outlines ==
    {None} \cup {Some(SubSeq(SectionNames, 1, n)) : n \in 0..MaxSections}

ShapePatterns ==
    {<<Placeholder(0)>>, <<Picture, Placeholder(0), Placeholder(1)>>, <<Picture>>}

Templates ==
    {[slides |-> [i \in 1..n |-> [shapes |-> p, background |-> "none"]]] :
        n \in 0..MaxGenSlides, p \in ShapePatterns}

Generate ==
    /\ gen = NoGen
    /\ \E template \in Templates, outline \in Outlines, fault \in 0..MaxGenFault :
          gen' = [phase |-> "done", template |-> template, outline |-> outline,
                  out |-> generate_content_from_outline(template, outline, fault)]
    /\ UNCHANGED <<presentations, current, files, tempFiles, calls, last>>

GenNext == Generate

SpecGen == Init /\ [][GenNext]_vars

----------------------------------------------------------------------------
(* What a finished call is checked against.                                *)

Returned == last # Idle

\* the document the call's arguments designate, told from the arguments and
\* the registry as they were before the call
Designated ==
    IF last.args.presentation_id # None THEN last.args.presentation_id ELSE current

Resolvable == Designated # None /\ Designated[1] \in DOMAIN last.pre

DocBefore == last.pre[Designated[1]]
DocAfter == presentations[Designated[1]]

SlideTools == {"get_slide_info", "populate_placeholder", "add_bullet_points",
               "manage_text", "manage_image"}

SlideIndexOutside ==
    last.args.slide_index < 0 \/ last.args.slide_index >= Len(DocBefore.slides)

\* C1: a call of a slide tool on a resolved document with slide_index < 0 or
\* slide_index >= len(slides) returns an error naming the range
\* 0..len(slides)-1, invokes nothing and leaves every document as it was,
\* whatever the other arguments are.
C1_SlideIndexRejected ==
    (Returned /\ last.tool \in SlideTools /\ Resolvable /\ SlideIndexOutside)
    => /\ last.result.status = "error"
       /\ last.result.code = "Invalid slide index"
       /\ last.result.range = <<0, Len(DocBefore.slides) - 1>>
       /\ last.ops = <<>>
       /\ presentations = last.pre

C1_Witness ==
    /\ Returned /\ last.tool = "manage_image" /\ Resolvable
    /\ last.args.slide_index = Len(DocBefore.slides)
    /\ Len(DocBefore.slides) = 1
    /\ last.args.operation = "add" /\ last.args.image_source = "img.png"
    /\ last.result.range = <<0, 0>>
    /\ presentations = last.pre

\* C2: a call targets the document named by presentation_id when one is
\* given and the current document otherwise; when that identifier is absent
\* or not in the registry the call returns the structured error and no
\* document changes (an unknown presentation_id never falls back to the
\* current document); otherwise no other document than the designated one
\* changes.
C2_TargetResolution ==
    Returned =>
        IF Resolvable
        THEN /\ last.result # NoPresentation
             /\ \A id \in DOMAIN presentations \ {Designated[1]} :
                    presentations[id] = last.pre[id]
        ELSE /\ last.result = NoPresentation
             /\ last.ops = <<>>
             /\ presentations = last.pre

C2_Witness ==
    /\ Returned /\ last.tool = "add_slide"
    /\ last.args.presentation_id = Some("px") /\ current = Some("p1")
    /\ last.args.layout_index = 0
    /\ last.result = NoPresentation
    /\ presentations = last.pre

\* C3: no exception leaves a tool: every call ends with a message/data
\* result or an error result, and a call in which an operation raised ends
\* with an error result.
C3_NoExceptionPropagates ==
    Returned =>
        /\ last.result.status \in {"message", "data", "error"}
        /\ last.raised => last.result.status = "error"

C3_Witness ==
    /\ Returned /\ last.tool = "manage_text" /\ last.args.operation = "format_runs"
    /\ last.raised
    /\ last.ops = <<"text_frame.clear", "add_paragraph">>
    /\ last.result.status = "error"

\* the typed arguments of a manage_text call that its contract rejects
BadRgb(c) == ~(Len(c) = 3 /\ \A i \in 1..Len(c) : c[i] \in 0..255)

TypedRejected ==
    \/ last.args.font_size # None /\ last.args.font_size[1] <= 0
    \/ last.args.color # None /\ BadRgb(last.args.color[1])
    \/ last.args.bg_color # None /\ BadRgb(last.args.bg_color[1])

SlideBefore == DocBefore.slides[last.args.slide_index + 1]
SlideAfter == DocAfter.slides[last.args.slide_index + 1]

OnSlide(tools) ==
    Returned /\ last.tool \in tools /\ Resolvable /\ ~SlideIndexOutside

NamesRange(n) == last.result.status = "error" /\ last.result.range = <<0, n - 1>>

\* C4: every index argument is checked against the length of its collection
\* before anything is delegated, and an index outside it is answered with an
\* error naming the valid range: the slide index, the layout index, the
\* shape index of manage_text format / validate / format_runs, and the
\* placeholder index of populate_placeholder and add_bullet_points.
C4_EveryIndexRangeChecked ==
    /\ (Returned /\ last.tool \in SlideTools /\ Resolvable /\ SlideIndexOutside)
       => NamesRange(Len(DocBefore.slides)) /\ last.ops = <<>>
    /\ (OnSlide({"manage_text"}) /\ ~TypedRejected
        /\ last.args.operation \in {"format", "validate", "format_runs"}
        /\ (\/ last.args.shape_index = None
            \/ last.args.shape_index[1] < 0
            \/ last.args.shape_index[1] >= Len(SlideBefore.shapes)))
       => NamesRange(Len(SlideBefore.shapes)) /\ last.ops = <<>>
    /\ (OnSlide({"populate_placeholder", "add_bullet_points"})
        /\ (\/ last.args.placeholder_idx < 0
            \/ last.args.placeholder_idx >= Cardinality(PlaceholderIdxs(SlideBefore))))
       => NamesRange(Cardinality(PlaceholderIdxs(SlideBefore))) /\ last.ops = <<>>

\* C5: manage_text validates its typed arguments before any mutation: for
\* every operation tag, a call whose font_size is not positive or whose color
\* or bg_color is not an RGB triple of 0..255 returns an error, invokes no
\* operation and leaves every document as it was; on a resolved document and
\* slide that error is the one validation error.
C5_ValidationBeforeMutation ==
    (Returned /\ last.tool = "manage_text" /\ TypedRejected)
    => /\ last.result.status = "error"
       /\ last.ops = <<>>
       /\ presentations = last.pre
       /\ (Resolvable /\ ~SlideIndexOutside)
              => last.result = Error("Parameter validation failed")

C5_Witness ==
    /\ OnSlide({"manage_text"})
    /\ last.args.operation = "add"
    /\ last.args.font_size = None /\ last.args.color = None
    /\ last.args.bg_color = Some(ShortRgb)
    /\ last.result = Error("Parameter validation failed")
    /\ presentations = last.pre

\* C6: every add that returns success (add_slide, manage_text "add",
\* manage_image "add" from a file or from a base64 payload) made its
\* collection exactly one longer, and the index it returns is the length the
\* collection had before the call.
C6_AddReturnsPriorLength ==
    (Returned /\ last.result.status = "message") =>
        /\ last.tool = "add_slide"
           => /\ Len(DocAfter.slides) = Len(DocBefore.slides) + 1
              /\ last.result.index = Some(Len(DocBefore.slides))
        /\ (last.tool \in {"manage_text", "manage_image"} /\ last.args.operation = "add")
           => /\ Len(SlideAfter.shapes) = Len(SlideBefore.shapes) + 1
              /\ last.result.index = Some(Len(SlideBefore.shapes))

C6_Witness ==
    /\ OnSlide({"manage_image"})
    /\ last.args.operation = "add" /\ last.args.source_type = "base64"
    /\ last.result.status = "message"
    /\ Len(SlideBefore.shapes) = 2
    /\ last.result.index = Some(2)
    /\ Len(SlideAfter.shapes) = 3

HasText(run_data) == "text" \in DOMAIN run_data

\* C7: a successful format_runs call given N >= 1 runs that have a "text" key
\* leaves the shape with exactly N paragraphs, each holding one run, in the
\* given order, each run carrying only attributes supplied for it.
C7_FormatRunsParagraphs ==
    (OnSlide({"manage_text"}) /\ last.args.operation = "format_runs"
     /\ last.result.status = "message")
    => LET given == SelectSeq(last.args.text_runs[1], HasText)
           paras == SlideAfter.shapes[last.args.shape_index[1] + 1].paras
       IN  Len(given) >= 1 =>
              /\ Len(paras) = Len(given)
              /\ \A k \in 1..Len(paras) :
                    /\ Len(paras[k]) = 1
                    /\ paras[k][1].text = given[k].text
                    /\ DOMAIN paras[k][1] \subseteq DOMAIN given[k]

BackgroundOps == {"set_slide_gradient_background",
                  "create_professional_gradient_background"}

AddSlideReturned == Returned /\ last.tool = "add_slide"

ColorsGiven ==
    IF last.args.background_colors = None THEN 0
    ELSE Len(last.args.background_colors[1])

BackgroundOpsInvoked ==
    {k \in 1..Len(last.ops) : last.ops[k] \in BackgroundOps}

NewSlideAfter == DocAfter.slides[Len(DocAfter.slides)]

\* C8: each of the three values of background_type ("solid", "gradient" with
\* its two colors, "professional_gradient") gets a background applied to the
\* slide a successful add_slide adds.
C8_EachStylePaints ==
    (AddSlideReturned /\ last.result.status = "message"
     /\ last.args.background_type \in
            {Some("solid"), Some("gradient"), Some("professional_gradient")}
     /\ (last.args.background_type = Some("gradient") => ColorsGiven >= 2))
    => /\ BackgroundOpsInvoked # {}
       /\ NewSlideAfter.background # "none"

\* C9: an add_slide call invokes at most one background operation; the
\* gradient only for background_type "gradient" with at least 2 colors, the
\* preset only for "professional_gradient", and a call that returns success
\* invoked each exactly when its condition holds; "gradient" with fewer than
\* 2 colors (none, empty, one) invokes no background operation and, unless an
\* operation raised, returns success with the new slide added and unpainted.
C9_OneBackgroundPath ==
    AddSlideReturned =>
        LET gradient == last.args.background_type = Some("gradient") /\ ColorsGiven >= 2
            preset == last.args.background_type = Some("professional_gradient")
            invoked(name) == \E k \in 1..Len(last.ops) : last.ops[k] = name
        IN  /\ Cardinality(BackgroundOpsInvoked) <= 1
            /\ invoked("set_slide_gradient_background") => gradient
            /\ invoked("create_professional_gradient_background") => preset
            /\ last.result.status = "message"
                  => /\ gradient => invoked("set_slide_gradient_background")
                     /\ preset => invoked("create_professional_gradient_background")
            /\ (last.args.background_type = Some("gradient") /\ ColorsGiven < 2)
                  => /\ BackgroundOpsInvoked = {}
                     /\ (Resolvable /\ last.args.layout_index \in 0..(NumLayouts - 1)
                         /\ ~last.raised)
                            => /\ last.result.status = "message"
                               /\ Len(DocAfter.slides) = Len(DocBefore.slides) + 1
                               /\ NewSlideAfter.background = "none"

C9_Witness ==
    /\ AddSlideReturned /\ Resolvable
    /\ last.args.background_type = Some("gradient")
    /\ last.args.background_colors = Some(<<Red>>)
    /\ last.args.title = Some("T")
    /\ last.result.status = "message"
    /\ last.ops = <<"add_slide", "set_title">>
    /\ Len(DocAfter.slides) = Len(DocBefore.slides) + 1
    /\ NewSlideAfter.background = "none"

----------------------------------------------------------------------------
(* What a run of the generator is checked against.                         *)

Generated == gen # NoGen

\* the text-bearing shapes of the template, slide by slide, in shape order
RECURSIVE TextShapes(_, _, _)
TextShapes(template, slide_index, pos) ==
    IF slide_index >= Len(template.slides) THEN <<>>
    ELSE IF pos > Len(template.slides[slide_index + 1].shapes)
    THEN TextShapes(template, slide_index + 1, 1)
    ELSE IF HasTextFrame(template.slides[slide_index + 1].shapes[pos])
    THEN <<[slide |-> slide_index, shape |-> pos - 1]>>
         \o TextShapes(template, slide_index, pos + 1)
    ELSE TextShapes(template, slide_index, pos + 1)

\* the section the distribution rule gives slide i of an outline of n >= 1
\* sections: blocks of 5 slides, the last section from slide 5*n on
BlockSection(i, n) ==
    IF i >= 5 * n THEN n - 1
    ELSE CHOOSE b \in 0..(n - 1) : 5 * b <= i /\ i < 5 * b + 5

\* C10: with n >= 1 sections, every completion requested for a shape of the
\* slide at position i is built from sections[min(i div 5, n-1)]: 5
\* consecutive slides share a section, the section never goes back, slides
\* from 5*n on reuse the last one (12 slides, 3 sections: 0-4 the first, 5-9
\* the second, 10-11 the third); a run that succeeds has requested one for
\* every text-bearing shape, in document order.
C10_SectionDistribution ==
    (Generated /\ gen.outline # None /\ Len(gen.outline[1]) >= 1)
    => LET sections == gen.outline[1]
           n == Len(sections)
           prompts == gen.out.prompts
       IN  /\ \A j \in 1..Len(prompts) :
                 /\ prompts[j].section = sections[BlockSection(prompts[j].slide, n) + 1]
                 /\ (n = 3 /\ prompts[j].slide \in 0..4) => prompts[j].section = sections[1]
                 /\ (n = 3 /\ prompts[j].slide \in 5..9) => prompts[j].section = sections[2]
                 /\ (n = 3 /\ prompts[j].slide \in 10..11) => prompts[j].section = sections[3]
           /\ gen.out.success
                 => [j \in 1..Len(prompts) |->
                        [slide |-> prompts[j].slide, shape |-> prompts[j].shape]]
                    = TextShapes(gen.template, 0, 1)

C10_Witness ==
    /\ Generated /\ gen.out.success
    /\ Len(gen.template.slides) = 12
    /\ gen.outline = Some(<<"intro", "body">>)
    /\ \E j \in 1..Len(gen.out.prompts) :
          gen.out.prompts[j].slide = 4 /\ gen.out.prompts[j].section = "intro"
    /\ \E j \in 1..Len(gen.out.prompts) :
          gen.out.prompts[j].slide = 5 /\ gen.out.prompts[j].section = "body"
    /\ \E j \in 1..Len(gen.out.prompts) :
          gen.out.prompts[j].slide = 11 /\ gen.out.prompts[j].section = "body"

\* the shapes the run requested a completion for and overwrote, in the order
\* it did
Prompted ==
    [j \in 1..Len(gen.out.prompts) |->
        [slide |-> gen.out.prompts[j].slide, shape |-> gen.out.prompts[j].shape]]

\* how many completion requests the run issued
Completions ==
    Cardinality({j \in 1..Len(gen.out.ops) : gen.out.ops[j] = "chat.completions.create"})

\* every shape a completion was received for holds the generated text only,
\* in the fixed font size
Overwritten(doc) ==
    \A j \in 1..Len(gen.out.prompts) :
        LET p == gen.out.prompts[j]
            shape == doc.slides[p.slide + 1].shapes[p.shape + 1]
        IN  /\ shape.paras = TextParas(GeneratedText(p.section))
            /\ shape.fmt.font_size = Some(GenFontSize)

\* C11: the document is saved only after every text-bearing shape of every
\* slide, in document order, got exactly one completion and was overwritten,
\* and success is returned exactly when the save completed; when a step
\* faults (client, outline, template, section lookup, a completion, the
\* save) the shapes processed are a prefix of the document order, no
\* completion is requested after the fault, nothing is saved, and the
\* record returned has success false and the caught message.
C11_SaveAfterAllShapes ==
    Generated
    => LET out == gen.out
           expected == TextShapes(gen.template, 0, 1)
       IN  /\ Len(out.prompts) <= Len(expected)
           /\ Prompted = SubSeq(expected, 1, Len(out.prompts))
           /\ out.success <=> out.saved # None
           /\ out.success <=> out.error = None
           /\ out.saved # None
                 => /\ Prompted = expected
                    /\ Completions = Len(expected)
                    /\ out.ops[Len(out.ops)] = "save"
                    /\ Overwritten(out.saved[1])
           /\ ~out.success
                 => /\ out.saved = None
                    /\ Completions = Len(out.prompts)
                          + (IF out.error = Some("chat.completions.create") THEN 1 ELSE 0)
                    /\ \A j \in 1..Len(out.ops) :
                          out.ops[j] = "save" => j = Len(out.ops) /\ out.error = Some("save")

\* a completion faults in the middle of the document
C11_Witness ==
    /\ Generated /\ ~gen.out.success
    /\ gen.out.error = Some("chat.completions.create")
    /\ gen.out.saved = None
    /\ Len(gen.out.prompts) >= 2
    /\ Len(gen.out.prompts) < Len(TextShapes(gen.template, 0, 1))

\* the save itself faults after every shape was filled
C11_SaveFaults ==
    /\ Generated /\ gen.out.error = Some("save")
    /\ Len(gen.out.prompts) >= 1

\* the section lookup faults
C11_LookupFaults ==
    /\ Generated /\ gen.out.error = Some("sections")
    /\ Len(TextShapes(gen.template, 0, 1)) >= 1

\* a run that saved a document with several filled shapes
C11_Saved ==
    /\ Generated /\ gen.out.success
    /\ Len(gen.out.prompts) >= 2

----------------------------------------------------------------------------
(* Temporary files of manage_image.                                        *)

\* a finished manage_image(operation="add", source_type="base64") call that
\* reached the inner try
Base64Add ==
    /\ Returned /\ last.tool = "manage_image"
    /\ last.args.operation = "add" /\ last.args.source_type = "base64"
    /\ last.ops # <<>>

Invoked(name) == \E j \in 1..Len(last.ops) : last.ops[j] = name

\* the operation called name raised
RaisedIn(name) == last.raised /\ last.ops[Len(last.ops)] = name

\* the temporary files the call created and left behind
LeftBehind == tempFiles \ last.preTemp

\* C12: a base64 add that returns a success message has removed the
\* temporary file it created; when add_image raises after the file was
\* created the call returns an error and the file is still there; and a call
\* adds one leftover temporary file exactly when it is a base64 add whose
\* add_image raised, none otherwise (so the leftover files after a sequence
\* of calls count the base64 adds whose image insertion failed).
C12_LeftoverPerFailedInsertion ==
    Returned
    => /\ (Base64Add /\ last.result.status = "message") => tempFiles = last.preTemp
       /\ (Base64Add /\ RaisedIn("add_image"))
             => last.result.status = "error" /\ Cardinality(LeftBehind) = 1
       /\ last.preTemp \subseteq tempFiles
       /\ Cardinality(LeftBehind)
             = (IF Base64Add /\ RaisedIn("add_image") THEN 1 ELSE 0)

\* C12 as amended: the same, with the leftover file counted for every base64
\* add in which an operation raised after the file was created (the write
\* of the payload, add_image, or the unlink itself).
C12_LeftoverPerFaultAfterCreation ==
    Returned
    => /\ (Base64Add /\ last.result.status = "message") => tempFiles = last.preTemp
       /\ (Base64Add /\ RaisedIn("add_image"))
             => last.result.status = "error" /\ Cardinality(LeftBehind) = 1
       /\ last.preTemp \subseteq tempFiles
       /\ Cardinality(LeftBehind)
             = (IF Base64Add /\ last.raised /\ Invoked("write") THEN 1 ELSE 0)
       /\ (Base64Add /\ last.raised) => last.result = Error("Failed to process base64 image")

\* add_image raised on the decoded payload and the file stayed
C12_Witness ==
    /\ Base64Add /\ RaisedIn("add_image")
    /\ last.result = Error("Failed to process base64 image")
    /\ Cardinality(tempFiles) = 1
    /\ DocAfter = DocBefore

\* the image was inserted and the unlink raised
C12_UnlinkFaults ==
    /\ Base64Add /\ RaisedIn("unlink")
    /\ Cardinality(LeftBehind) = 1
    /\ DocAfter # DocBefore

\* a base64 add that succeeded
C12_CleanedUp ==
    /\ Base64Add /\ last.result.status = "message"
    /\ Invoked("unlink") /\ tempFiles = {}

----------------------------------------------------------------------------
(* What a call that raised midway leaves in the document.                  *)

\* add_slide appended the slide and a later step (title, background) raised
AddSlideFaultedLater ==
    /\ AddSlideReturned /\ last.raised
    /\ Len(last.ops) >= 2 /\ last.ops[1] = "add_slide"

\* format_runs cleared the text frame and a later step raised
FormatRunsFaultedLater ==
    /\ OnSlide({"manage_text"}) /\ last.args.operation = "format_runs"
    /\ last.raised
    /\ Len(last.ops) >= 2 /\ last.ops[1] = "text_frame.clear"

\* the texts of the runs of a text frame
Texts(paras) ==
    UNION {{paras[k][r].text : r \in 1..Len(paras[k])} : k \in 1..Len(paras)}

GivenTexts ==
    {run.text : run \in {last.args.text_runs[1][k] :
                            k \in {j \in 1..Len(last.args.text_runs[1]) :
                                      HasText(last.args.text_runs[1][j])}}}

\* C13: nothing a tool call did before it raised is rolled back.  When
\* add_slide appended the slide and the title or background step raises, the
\* call returns the error "Failed to add slide" and the document has one
\* slide more than before (the slides it had, then the new one); when
\* format_runs cleared the text frame and a later step raises, the call
\* returns an error and the shape holds none of its previous text.
C13_NoRollback ==
    /\ AddSlideFaultedLater
          => /\ last.result = Error("Failed to add slide")
             /\ Len(DocAfter.slides) = Len(DocBefore.slides) + 1
             /\ SubSeq(DocAfter.slides, 1, Len(DocBefore.slides)) = DocBefore.slides
             /\ DocAfter # DocBefore
    /\ FormatRunsFaultedLater
          => LET before == SlideBefore.shapes[last.args.shape_index[1] + 1].paras
                 after == SlideAfter.shapes[last.args.shape_index[1] + 1].paras
             IN  /\ last.result = Error("Failed to manage text")
                 /\ Texts(after) \subseteq GivenTexts
                 /\ Texts(before) # {} => after # before
                 /\ Len(last.ops) = 2 => after = EmptyParas

\* the title step raised on the slide just appended
C13_Witness ==
    /\ AddSlideFaultedLater
    /\ last.ops = <<"add_slide", "set_title">>
    /\ last.result.status = "error"
    /\ Len(DocAfter.slides) = Len(DocBefore.slides) + 1

\* the background step raised after the title was set
C13_BackgroundFaults ==
    /\ AddSlideFaultedLater
    /\ Len(last.ops) = 3 /\ last.ops[3] \in BackgroundOps
    /\ Len(DocAfter.slides) = Len(DocBefore.slides) + 1

\* format_runs raised right after clearing a shape that held text
C13_TextLost ==
    /\ FormatRunsFaultedLater
    /\ Texts(SlideBefore.shapes[last.args.shape_index[1] + 1].paras) = {"old"}
    /\ Texts(SlideAfter.shapes[last.args.shape_index[1] + 1].paras) = {}

====
